---- MODULE Spec2Model ----
(***************************************************************************)
(* Tool dispatch and upstream-request contract of the MCP servers          *)
(* (confluence-mcp-server/main.py, github-mcp-server/server.py, oauth.py,  *)
(* sample.py, gitlab-mcp-server/main.py).                                  *)
(*                                                                         *)
(* A tool handler is modelled as a continuation: given the invocation and  *)
(* the upstream calls it has made so far (with their responses) it either  *)
(* issues its next upstream request or ends (returns or raises).  Every    *)
(* upstream HTTP request is one step; the upstream answers it in the same  *)
(* step.                                                                   *)
(***************************************************************************)
EXTENDS Integers, Sequences, FiniteSets, TLC

VARIABLES server, inv, pc, calls, result, snap,
          user_tokens, GITHUB_TOKEN, pageVersion, git,
          cb, last_stored, root, phase, session

vars == <<server, inv, pc, calls, result, snap,
          user_tokens, GITHUB_TOKEN, pageVersion, git,
          cb, last_stored, root, phase, session>>

\* the login callbacks in progress, and the token the latest of them stored
oauthVars == <<cb, last_stored>>

\* the app object that is served, the stage of the process, and the
\* session-manager context (mcp.session_manager.run())
lifeVars == <<root, phase, session>>

\* ------------------------------------------------------------------ bounds
MaxFiles == 2
MaxFrags == 2
MaxVersion == 3
MaxObjects == 6
NumProcs == 2

Procs == 1..NumProcs

\* ------------------------------------------------------------- characters
\* Strings that the code inspects are sequences of one-character strings.
UpperOf == [c \in {"p", "u", "l", "i", "s", "e", "r", "a", "t", "f"} |->
              CASE c = "p" -> "P" [] c = "u" -> "U" [] c = "l" -> "L"
                [] c = "i" -> "I" [] c = "s" -> "S" [] c = "e" -> "E"
                [] c = "r" -> "R" [] c = "a" -> "A" [] c = "t" -> "T"
                [] c = "f" -> "F"]

\* str.lower() on one character
LowerChar(c) ==
  IF \E l \in DOMAIN UpperOf : UpperOf[l] = c
  THEN CHOOSE l \in DOMAIN UpperOf : UpperOf[l] = c
  ELSE c

\* str.lower()
Lower(s) == [k \in 1..Len(s) |-> LowerChar(s[k])]

\* Python's `sub in s` for strings
Contains(s, sub) ==
  \E k \in 1..(Len(s) - Len(sub) + 1) : SubSeq(s, k, k + Len(sub) - 1) = sub

kwPull == <<"p", "u", "l", "l">>
kwIssue == <<"i", "s", "s", "u", "e">>
kwRelease == <<"r", "e", "l", "e", "a", "s", "e">>
strTrue == <<"t", "r", "u", "e">>

\* ------------------------------------------------------------ HTTP values
\* A response: status code, the form of its text ("empty", "json", "text")
\* and, for a JSON body, the datum the handler reads from it (a version
\* number, a sha), as a set: {} when the key is missing.
Response(status, body, val) == [status |-> status, body |-> body, val |-> val]

\* requests.Response.ok
RespOk(resp) == resp.status < 400

\* an upstream request a handler is about to issue: method, endpoint, the
\* datum of its payload that matters (a version number, a sha, a file's
\* position) and the credential placed in its auth header
Req(method, ep, data, auth) ==
  [k |-> "req", method |-> method, ep |-> ep, data |-> data, auth |-> auth]

\* the normal return of a handler
Return(msg) ==
  [k |-> "ret",
   res |-> [raised |-> FALSE, exc |-> "none", status |-> 0, msg |-> msg,
            detail |-> "none"]]

\* an exception leaving a handler
Raise(exc, status, msg, detail) ==
  [k |-> "ret",
   res |-> [raised |-> TRUE, exc |-> exc, status |-> status, msg |-> msg,
            detail |-> detail]]

\* what a request helper hands back to the tool: a decoded value or an exception
Value(kind, val) == [raised |-> FALSE, kind |-> kind, val |-> val]
Failed(exc, status, msg, detail) ==
  [raised |-> TRUE, exc |-> exc, status |-> status, msg |-> msg, detail |-> detail]

Propagate(o) == Raise(o.exc, o.status, o.msg, o.detail)

\* Python truthiness of an optional number (None and 0 are falsy)
Truthy(v) == v # {} /\ v # {0}

TheVal(v) == CHOOSE n \in v : TRUE

\* ------------------------------------------------------- optional arguments
\* Optional[str] arguments: "None", "" or a value; Python truthiness
IsSet(a) == a \notin {"None", ""}

NoToken == "None"
Tokens == {"t1", "t2"}
Users == {"demo_user", "alice"}

\* request: Request = None, else the inbound request with its X-MCP-Readonly
\* header (headers.get(..., "") gives "" when the header is absent)
NoRequest == [present |-> FALSE, value |-> <<>>]
WithHeader(v) == [present |-> TRUE, value |-> v]

\* cf_request keeping the raw text of every error body
cf_request_rawdetail(resp) ==
  IF ~RespOk(resp)
  THEN Failed("RuntimeError", resp.status, "Confluence API error", "raw-text")
  ELSE IF resp.body = "empty" THEN Value("empty", {})
  ELSE IF resp.body = "json" THEN Value("json", resp.val)
  ELSE Value("raw", {})

\* cf_request without the `if not resp.ok` branch
cf_request_noraise(resp) ==
  IF resp.body = "empty" THEN Value("empty", {})
  ELSE IF resp.body = "json" THEN Value("json", resp.val)
  ELSE Value("raw", {})

\* ------------------------------------------------- confluence: cf_request
cf_request(resp) ==
  IF ~RespOk(resp)
  THEN Failed("RuntimeError", resp.status, "Confluence API error",
              IF resp.body = "json" THEN "decoded-json" ELSE "raw-text")
  ELSE IF resp.body = "empty" THEN Value("empty", {})
  ELSE IF resp.body = "json" THEN Value("json", resp.val)
  ELSE Value("raw", {})

\* a tool that makes one cf_request and reports `msg`
CfSingle(cs, method, ep, msg) ==
  IF Len(cs) = 0 THEN Req(method, ep, 0, "CONFLUENCE_PAT")
  ELSE LET o == cf_request(cs[1]) IN
       IF o.raised THEN Propagate(o) ELSE Return(msg)

confluence_create_page(i, cs) == CfSingle(cs, "POST", "content", "Page created")

\* confluence_get_page refusing only when title and space_key are both missing
confluence_get_page_bothmissing(i, cs) ==
  IF IsSet(i.page_id) THEN CfSingle(cs, "GET", "content/{page_id}", "upstream-json")
  ELSE IF ~IsSet(i.title) /\ ~IsSet(i.space_key)
  THEN Raise("RuntimeError", 0, "Provide either page_id OR (title and space_key).", "none")
  ELSE IF Len(cs) = 0 THEN Req("GET", "content?title=", 0, "CONFLUENCE_PAT")
  ELSE LET o == cf_request(cs[1]) IN
       IF o.raised THEN Propagate(o)
       ELSE IF o.val = {} THEN Return("No page found")
       ELSE Return("upstream-json")

confluence_get_page(i, cs) ==
  IF IsSet(i.page_id) THEN CfSingle(cs, "GET", "content/{page_id}", "upstream-json")
  ELSE IF ~IsSet(i.title) \/ ~IsSet(i.space_key)
  THEN Raise("RuntimeError", 0, "Provide either page_id OR (title and space_key).", "none")
  ELSE IF Len(cs) = 0 THEN Req("GET", "content?title=", 0, "CONFLUENCE_PAT")
  ELSE LET o == cf_request(cs[1]) IN
       IF o.raised THEN Propagate(o)
       ELSE IF o.val = {} THEN Return("No page found")
       ELSE Return("upstream-json")

confluence_update_page(i, cs) ==
  IF Len(cs) = 0 THEN Req("GET", "content/{page_id}?expand=version", 0, "CONFLUENCE_PAT")
  ELSE LET current == cf_request(cs[1]) IN
       IF current.raised THEN Propagate(current)
       ELSE LET version == current.val IN
            IF ~Truthy(version)
            THEN Raise("RuntimeError", 0,
                       "Could not determine current version number for the page.", "none")
            ELSE IF Len(cs) = 1
            THEN Req("PUT", "content/{page_id}", TheVal(version) + 1, "CONFLUENCE_PAT")
            ELSE LET updated == cf_request(cs[2]) IN
                 IF updated.raised THEN Propagate(updated) ELSE Return("Page updated")

\* confluence_delete_page sending the DELETE again after a failure
confluence_delete_page_retry(i, cs) ==
  IF Len(cs) = 0 \/ (Len(cs) = 1 /\ cf_request(cs[1]).raised)
  THEN Req("DELETE", "content/{page_id}?status=", 0, "CONFLUENCE_PAT")
  ELSE LET o == cf_request(cs[Len(cs)]) IN
       IF o.raised THEN Propagate(o) ELSE Return("Page deleted")

confluence_delete_page(i, cs) ==
  CfSingle(cs, "DELETE", "content/{page_id}?status=", "Page deleted")

confluence_add_comment(i, cs) ==
  CfSingle(cs, "POST", "content/{page_id}/child/comment", "Comment added")

confluence_get_comments(i, cs) ==
  CfSingle(cs, "GET", "content/{page_id}/child/comment", "upstream-json")

confluence_add_label(i, cs) ==
  CfSingle(cs, "POST", "content/{page_id}/label", "Added label(s)")

confluence_get_labels(i, cs) ==
  CfSingle(cs, "GET", "content/{page_id}/label", "upstream-json")

confluence_get_page_children(i, cs) ==
  CfSingle(cs, "GET", "content/{page_id}/child/page", "upstream-json")

\* confluence_search building the request from `query` before looking at `cql`
confluence_search_queryfirst(i, cs) ==
  IF IsSet(i.search_query)
  THEN CfSingle(cs, "GET", "search?cql=text~{query}", "upstream-json")
  ELSE IF IsSet(i.cql) THEN CfSingle(cs, "GET", "search?cql={cql}", "upstream-json")
  ELSE Raise("RuntimeError", 0, "Provide either 'query' or 'cql' for search.", "none")

confluence_search(i, cs) ==
  IF IsSet(i.cql) THEN CfSingle(cs, "GET", "search?cql={cql}", "upstream-json")
  ELSE IF IsSet(i.search_query)
  THEN CfSingle(cs, "GET", "search?cql=text~{query}", "upstream-json")
  ELSE Raise("RuntimeError", 0, "Provide either 'query' or 'cql' for search.", "none")

\* --------------------------------------------- check_readonly (all files)
\* server.py:38, sample.py:49, gitlab main.py:38 define the same function
check_readonly(request) ==
  IF ~request.present
  THEN Failed("AttributeError", 0, "'NoneType' object has no attribute 'headers'", "none")
  ELSE IF Lower(request.value) = strTrue
  THEN Failed("HTTPException", 403, "Readonly mode enforced", "none")
  ELSE Value("pass", {})

\* github_request without the `if not resp.ok` branch
gh_github_request_noraise(resp) ==
  IF resp.body = "empty" THEN Value("empty", {})
  ELSE IF resp.body = "json" THEN Value("json", resp.val)
  ELSE Failed("JSONDecodeError", 0, "Expecting value", "none")

\* ------------------------------------------ github server.py: github_request
gh_github_request(resp) ==
  IF ~RespOk(resp)
  THEN Failed("RuntimeError", resp.status, "GitHub API error", "raw-text")
  ELSE IF resp.body = "empty" THEN Value("empty", {})
  ELSE IF resp.body = "json" THEN Value("json", resp.val)
  ELSE Failed("JSONDecodeError", 0, "Expecting value", "none")

\* a tool that makes one github_request after the readonly check
GhSingle(i, cs, method, ep, msg) ==
  LET chk == check_readonly(i.request) IN
  IF chk.raised THEN Propagate(chk)
  ELSE IF Len(cs) = 0 THEN Req(method, ep, 0, "GITHUB_TOKEN")
  ELSE LET o == gh_github_request(cs[1]) IN
       IF o.raised THEN Propagate(o) ELSE Return(msg)

gh_create_branch(i, cs) ==
  LET chk == check_readonly(i.request) IN
  IF chk.raised THEN Propagate(chk)
  ELSE IF Len(cs) = 0 THEN Req("GET", "git/ref/heads/{branch}", 0, "GITHUB_TOKEN")
  ELSE LET ref_data == gh_github_request(cs[1]) IN
       IF ref_data.raised THEN Propagate(ref_data)
       ELSE IF ref_data.val = {} THEN Raise("KeyError", 0, "object", "none")
       ELSE IF Len(cs) = 1
       THEN Req("POST", "git/refs", TheVal(ref_data.val), "GITHUB_TOKEN")
       ELSE LET resp == gh_github_request(cs[2]) IN
            IF resp.raised THEN Propagate(resp) ELSE Return("Branch created")

gh_create_or_update_file(i, cs) ==
  GhSingle(i, cs, "PUT", "contents/{path}", "File updated")

\* get_contents calling check_readonly like the mutating tools
gh_get_contents_checked(i, cs) ==
  GhSingle(i, cs, "GET", "contents/{path}?ref=", "upstream-json")

gh_get_contents(i, cs) ==
  IF Len(cs) = 0 THEN Req("GET", "contents/{path}?ref=", 0, "GITHUB_TOKEN")
  ELSE LET o == gh_github_request(cs[1]) IN
       IF o.raised THEN Propagate(o) ELSE Return("upstream-json")

gh_create_pull_request(i, cs) == GhSingle(i, cs, "POST", "pulls", "PR created")

gh_merge_pull_request(i, cs) ==
  GhSingle(i, cs, "PUT", "pulls/{pr_number}/merge", "PR merged")

gh_update_pr_branch(i, cs) ==
  GhSingle(i, cs, "PUT", "pulls/{pr_number}/update-branch", "PR branch update requested")

\* the pipeline with the tree created before the blobs
PushStages_treeFirst(n) ==
  <<"ref", "commit", "tree">> \o [k \in 1..n |-> "blob"] \o <<"commit_create", "ref_update">>

\* the ordered pipeline of push_multiple_files for n files
PushStages(n) ==
  <<"ref", "commit">> \o [k \in 1..n |-> "blob"] \o <<"tree", "commit_create", "ref_update">>

\* the request of pipeline stage number k (1-based), built from the values
\* the earlier stages returned
PushRequest(n, k, cs) ==
  LET stage == PushStages(n)[k] IN
  CASE stage = "ref" -> Req("GET", "git/ref/heads/{branch}", 0, "GITHUB_TOKEN")
    [] stage = "commit" -> Req("GET", "git/commits/{sha}", TheVal(cs[1].val), "GITHUB_TOKEN")
    [] stage = "blob" -> Req("POST", "git/blobs", k - 2, "GITHUB_TOKEN")
    [] stage = "tree" -> Req("POST", "git/trees", n, "GITHUB_TOKEN")
    [] stage = "commit_create" ->
         Req("POST", "git/commits", TheVal(cs[k - 1].val), "GITHUB_TOKEN")
    [] stage = "ref_update" ->
         Req("PATCH", "git/ref/heads/{branch}", TheVal(cs[k - 1].val), "GITHUB_TOKEN")

gh_push_multiple_files(i, cs) ==
  LET chk == check_readonly(i.request)
      n == i.files
      k == Len(cs)
  IN
  IF chk.raised THEN Propagate(chk)
  ELSE IF k = 0 THEN PushRequest(n, 1, cs)
  ELSE LET o == gh_github_request(cs[k]) IN
       IF o.raised THEN Propagate(o)
       ELSE IF k = Len(PushStages(n)) THEN Return("Committed files")
       \* every response but the ref update's is indexed: ["object"]["sha"],
       \* ["tree"]["sha"], blob["sha"], tree["sha"], commit["sha"]
       ELSE IF o.val = {} THEN Raise("KeyError", 0, "sha", "none")
       ELSE PushRequest(n, k + 1, cs)

\* ------------------------------------------------ gitlab main.py
gitlab_request(resp) ==
  IF ~RespOk(resp)
  THEN Failed("RuntimeError", resp.status, "GitLab API error", "raw-text")
  ELSE IF resp.body = "empty" THEN Value("empty", {})
  ELSE IF resp.body = "json" THEN Value("json", resp.val)
  ELSE Failed("JSONDecodeError", 0, "Expecting value", "none")

\* `check_readonly(request)` in a tool that has no `request` parameter: the
\* module defines no name `request`, so evaluating the argument raises
gl_check_readonly(i) ==
  Failed("NameError", 0, "name 'request' is not defined", "none")

GlSingle(i, cs, method, ep, msg) ==
  LET chk == gl_check_readonly(i) IN
  IF chk.raised THEN Propagate(chk)
  ELSE IF Len(cs) = 0 THEN Req(method, ep, 0, "GITLAB_TOKEN")
  ELSE LET o == gitlab_request(cs[1]) IN
       IF o.raised THEN Propagate(o) ELSE Return(msg)

gl_create_branch(i, cs) == GlSingle(i, cs, "POST", "repository/branches", "Branch created")

gl_create_or_update_file(i, cs) ==
  GlSingle(i, cs, IF IsSet(i.sha) THEN "PUT" ELSE "POST", "repository/files/{path}",
           "File updated")

gl_get_contents(i, cs) ==
  IF Len(cs) = 0 THEN Req("GET", "repository/files/{path}?ref=", 0, "GITLAB_TOKEN")
  ELSE LET o == gitlab_request(cs[1]) IN
       IF o.raised THEN Propagate(o) ELSE Return("upstream-json")

gl_create_merge_request(i, cs) ==
  GlSingle(i, cs, "POST", "merge_requests", "Merge request created")

gl_merge_merge_request(i, cs) ==
  GlSingle(i, cs, "PUT", "merge_requests/{mr_iid}/merge", "MR merged")

gl_push_multiple_files(i, cs) ==
  GlSingle(i, cs, "POST", "repository/commits", "Committed files")

gl_update_mr_branch(i, cs) ==
  GlSingle(i, cs, "PUT", "merge_requests/{mr_iid}/rebase", "MR rebase requested")

\* ------------------------------------------------ github oauth.py
\* the lookup without the `if not token` check
oa_lookup_unchecked(user) == Value("token", {user_tokens[user]})

\* github_request(user, ...): the credential lookup, then the request
oa_lookup(user) ==
  LET token == user_tokens[user] IN
  IF token = NoToken
  THEN Failed("HTTPException", 401, "User not authenticated", "none")
  ELSE Value("token", {token})

\* github_request(user, ...): the handling of the response
oa_github_request(resp) ==
  IF ~RespOk(resp)
  THEN Failed("HTTPException", resp.status, "upstream", "raw-text")
  ELSE IF resp.body = "json" THEN Value("json", resp.val)
  ELSE Failed("JSONDecodeError", 0, "Expecting value", "none")

\* the k-th github_request of an oauth.py tool
OaCall(i, cs, k, path) ==
  IF Len(cs) < k
  THEN LET t == oa_lookup(i.user) IN
       IF t.raised THEN Propagate(t) ELSE Req("GET", path, 0, TheVal(t.val))
  ELSE Propagate(oa_github_request(cs[k]))

OaDone(cs, k) == Len(cs) >= k /\ ~oa_github_request(cs[k]).raised

\* query_github matching the keywords without query.lower()
oa_query_github_casesensitive(i, cs) ==
  LET q == i.query IN
  IF Contains(q, kwPull)
  THEN IF OaDone(cs, 1) THEN Return("upstream-json")
       ELSE OaCall(i, cs, 1, "/repos/org/repo/pulls?state=open")
  ELSE IF Contains(q, kwIssue)
  THEN IF OaDone(cs, 1) THEN Return("upstream-json")
       ELSE OaCall(i, cs, 1, "/repos/org/repo/issues?state=open")
  ELSE IF Contains(q, kwRelease)
  THEN IF OaDone(cs, 1) THEN Return("upstream-json")
       ELSE OaCall(i, cs, 1, "/repos/org/repo/releases")
  ELSE Return("Query not understood")

oa_query_github(i, cs) ==
  LET q == Lower(i.query) IN
  IF Contains(q, kwPull)
  THEN IF OaDone(cs, 1) THEN Return("upstream-json")
       ELSE OaCall(i, cs, 1, "/repos/org/repo/pulls?state=open")
  ELSE IF Contains(q, kwIssue)
  THEN IF OaDone(cs, 1) THEN Return("upstream-json")
       ELSE OaCall(i, cs, 1, "/repos/org/repo/issues?state=open")
  ELSE IF Contains(q, kwRelease)
  THEN IF OaDone(cs, 1) THEN Return("upstream-json")
       ELSE OaCall(i, cs, 1, "/repos/org/repo/releases")
  ELSE Return("Query not understood")

oa_weekly_digest(i, cs) ==
  IF ~OaDone(cs, 1)
  THEN OaCall(i, cs, 1, "/repos/org/repo/pulls?state=all")
  ELSE IF ~OaDone(cs, 2)
  THEN OaCall(i, cs, 2, "/repos/org/repo/issues?since=")
  ELSE Return("digest")

\* ------------------------------------------------ github sample.py
\* get_auth_header preferring the static GITHUB_TOKEN to the stored token
get_auth_header_staticfirst(user) ==
  LET token == IF GITHUB_TOKEN # NoToken THEN GITHUB_TOKEN
               ELSE IF user # "None" /\ user \in DOMAIN user_tokens /\ user_tokens[user] # NoToken
               THEN user_tokens[user]
               ELSE NoToken
  IN IF token = NoToken
     THEN Failed("HTTPException", 401, "No GitHub token available", "none")
     ELSE Value("token", {token})

get_auth_header(user) ==
  LET token == IF user # "None" /\ user \in DOMAIN user_tokens /\ user_tokens[user] # NoToken
               THEN user_tokens[user]
               ELSE IF GITHUB_TOKEN # NoToken THEN GITHUB_TOKEN
               ELSE NoToken
  IN IF token = NoToken
     THEN Failed("HTTPException", 401, "No GitHub token available", "none")
     ELSE Value("token", {token})

\* github_request(method, url, user): the handling of the response
sm_github_request(resp) ==
  IF ~RespOk(resp)
  THEN Failed("HTTPException", resp.status, "upstream", "raw-text")
  ELSE IF resp.body = "empty" THEN Value("empty", {})
  ELSE IF resp.body = "json" THEN Value("json", resp.val)
  ELSE Failed("JSONDecodeError", 0, "Expecting value", "none")

\* requests.request(method, url, headers=get_auth_header(user)): the header is
\* computed first; then a url without a scheme (one not built from BASE_URL)
\* is refused by the HTTP library before anything is sent
SmCall(i, cs, k, method, base, path, data) ==
  IF Len(cs) < k
  THEN LET h == get_auth_header(i.user) IN
       IF h.raised THEN Propagate(h)
       ELSE IF base = "" THEN Raise("MissingSchema", 0, "Invalid URL: No scheme supplied", path)
       ELSE Req(method, path, data, TheVal(h.val))
  ELSE Propagate(sm_github_request(cs[k]))

SmDone(cs, k) == Len(cs) >= k /\ ~sm_github_request(cs[k]).raised

SmSingle(i, cs, method, path, msg) ==
  LET chk == check_readonly(i.request) IN
  IF chk.raised THEN Propagate(chk)
  ELSE IF SmDone(cs, 1) THEN Return(msg)
  ELSE SmCall(i, cs, 1, method, "BASE_URL", path, 0)

sm_create_branch(i, cs) ==
  LET chk == check_readonly(i.request) IN
  IF chk.raised THEN Propagate(chk)
  ELSE IF ~SmDone(cs, 1)
  THEN SmCall(i, cs, 1, "GET", "BASE_URL", "git/ref/heads/{branch}", 0)
  ELSE IF cs[1].val = {} THEN Raise("KeyError", 0, "object", "none")
  ELSE IF ~SmDone(cs, 2)
  THEN SmCall(i, cs, 2, "POST", "BASE_URL", "git/refs", TheVal(cs[1].val))
  ELSE Return("Branch created")

sm_create_or_update_file(i, cs) == SmSingle(i, cs, "PUT", "contents/{path}", "File updated")

sm_get_contents(i, cs) ==
  IF SmDone(cs, 1) THEN Return("upstream-json")
  ELSE SmCall(i, cs, 1, "GET", "BASE_URL", "contents/{path}?ref=", 0)

sm_create_pull_request(i, cs) == SmSingle(i, cs, "POST", "pulls", "PR created")

sm_merge_pull_request(i, cs) ==
  SmSingle(i, cs, "PUT", "pulls/{pr_number}/merge", "PR merged")

\* query_github falling back to the releases listing when no keyword matches
sm_query_github_fallback(i, cs) ==
  LET q == Lower(i.query) IN
  IF Contains(q, kwPull)
  THEN IF SmDone(cs, 1) THEN Return("upstream-json")
       ELSE SmCall(i, cs, 1, "GET", "", "/repos/org/repo/pulls?state=open", 0)
  ELSE IF Contains(q, kwIssue)
  THEN IF SmDone(cs, 1) THEN Return("upstream-json")
       ELSE SmCall(i, cs, 1, "GET", "", "/repos/org/repo/issues?state=open", 0)
  ELSE IF SmDone(cs, 1) THEN Return("upstream-json")
  ELSE SmCall(i, cs, 1, "GET", "", "/repos/org/repo/releases", 0)

sm_query_github(i, cs) ==
  LET q == Lower(i.query) IN
  IF Contains(q, kwPull)
  THEN IF SmDone(cs, 1) THEN Return("upstream-json")
       ELSE SmCall(i, cs, 1, "GET", "", "/repos/org/repo/pulls?state=open", 0)
  ELSE IF Contains(q, kwIssue)
  THEN IF SmDone(cs, 1) THEN Return("upstream-json")
       ELSE SmCall(i, cs, 1, "GET", "", "/repos/org/repo/issues?state=open", 0)
  ELSE IF Contains(q, kwRelease)
  THEN IF SmDone(cs, 1) THEN Return("upstream-json")
       ELSE SmCall(i, cs, 1, "GET", "", "/repos/org/repo/releases", 0)
  ELSE Return("Query not understood")

sm_weekly_digest(i, cs) ==
  IF ~SmDone(cs, 1)
  THEN SmCall(i, cs, 1, "GET", "", "/repos/org/repo/pulls?state=all", 0)
  ELSE IF ~SmDone(cs, 2)
  THEN SmCall(i, cs, 2, "GET", "", "/repos/org/repo/issues?since=", 0)
  ELSE Return("digest")

\* ------------------------------------------------ tool dispatch
Servers == {"confluence", "github", "gitlab", "oauth", "sample"}

ConfluenceTools ==
  {"confluence_create_page", "confluence_get_page", "confluence_update_page",
   "confluence_delete_page", "confluence_add_comment", "confluence_get_comments",
   "confluence_add_label", "confluence_get_labels", "confluence_get_page_children",
   "confluence_search"}

GithubTools ==
  {"create_branch", "create_or_update_file", "get_contents", "create_pull_request",
   "merge_pull_request", "push_multiple_files", "update_pr_branch"}

GitlabTools ==
  {"create_branch", "create_or_update_file", "get_contents", "create_merge_request",
   "merge_merge_request", "push_multiple_files", "update_mr_branch"}

OauthTools == {"query_github", "weekly_digest"}

SampleTools ==
  {"create_branch", "create_or_update_file", "get_contents", "create_pull_request",
   "merge_pull_request", "query_github", "weekly_digest"}

\* @mcp.tool(): the handler registered under the tool's name in each server
Handler(srv, i, cs) ==
  LET t == i.tool IN
  CASE srv = "confluence" ->
         (CASE t = "confluence_create_page" -> confluence_create_page(i, cs)
            [] t = "confluence_get_page" -> confluence_get_page(i, cs)
            [] t = "confluence_update_page" -> confluence_update_page(i, cs)
            [] t = "confluence_delete_page" -> confluence_delete_page(i, cs)
            [] t = "confluence_add_comment" -> confluence_add_comment(i, cs)
            [] t = "confluence_get_comments" -> confluence_get_comments(i, cs)
            [] t = "confluence_add_label" -> confluence_add_label(i, cs)
            [] t = "confluence_get_labels" -> confluence_get_labels(i, cs)
            [] t = "confluence_get_page_children" -> confluence_get_page_children(i, cs)
            [] t = "confluence_search" -> confluence_search(i, cs))
    [] srv = "github" ->
         (CASE t = "create_branch" -> gh_create_branch(i, cs)
            [] t = "create_or_update_file" -> gh_create_or_update_file(i, cs)
            [] t = "get_contents" -> gh_get_contents(i, cs)
            [] t = "create_pull_request" -> gh_create_pull_request(i, cs)
            [] t = "merge_pull_request" -> gh_merge_pull_request(i, cs)
            [] t = "push_multiple_files" -> gh_push_multiple_files(i, cs)
            [] t = "update_pr_branch" -> gh_update_pr_branch(i, cs))
    [] srv = "gitlab" ->
         (CASE t = "create_branch" -> gl_create_branch(i, cs)
            [] t = "create_or_update_file" -> gl_create_or_update_file(i, cs)
            [] t = "get_contents" -> gl_get_contents(i, cs)
            [] t = "create_merge_request" -> gl_create_merge_request(i, cs)
            [] t = "merge_merge_request" -> gl_merge_merge_request(i, cs)
            [] t = "push_multiple_files" -> gl_push_multiple_files(i, cs)
            [] t = "update_mr_branch" -> gl_update_mr_branch(i, cs))
    [] srv = "oauth" ->
         (CASE t = "query_github" -> oa_query_github(i, cs)
            [] t = "weekly_digest" -> oa_weekly_digest(i, cs))
    [] srv = "sample" ->
         (CASE t = "create_branch" -> sm_create_branch(i, cs)
            [] t = "create_or_update_file" -> sm_create_or_update_file(i, cs)
            [] t = "get_contents" -> sm_get_contents(i, cs)
            [] t = "create_pull_request" -> sm_create_pull_request(i, cs)
            [] t = "merge_pull_request" -> sm_merge_pull_request(i, cs)
            [] t = "query_github" -> sm_query_github(i, cs)
            [] t = "weekly_digest" -> sm_weekly_digest(i, cs))

\* ------------------------------------------------ the upstream services
\* Answers the upstream may give to any request: a client error with a JSON
\* body, a server error with a text body, a gateway error with no body.
ErrorAnswers ==
  {Response(404, "json", {}), Response(500, "text", {}), Response(502, "empty", {})}

\* The answers the upstream may give to request `req` in its current state.
\* The wiki accepts a page update only when its version number is the page's
\* current number + 1 and answers 409 otherwise.
Answers(req) ==
  ErrorAnswers \cup
  (CASE req.ep = "content/{page_id}?expand=version" ->
          {Response(200, "json", {pageVersion}), Response(200, "json", {}),
           Response(200, "text", {}), Response(200, "empty", {})}
     [] req.ep = "content/{page_id}" /\ req.method = "PUT" ->
          IF req.data = pageVersion + 1
          THEN {Response(200, "json", {req.data})}
          ELSE {Response(409, "json", {})}
     [] req.ep = "git/ref/heads/{branch}" /\ req.method = "GET" ->
          {Response(200, "json", {git.ref}), Response(200, "json", {})}
     [] req.ep = "git/ref/heads/{branch}" /\ req.method = "PATCH" ->
          {Response(200, "json", {req.data})}
     [] req.ep = "git/commits/{sha}" ->
          {Response(200, "json", {git.trees}), Response(200, "empty", {})}
     [] req.ep = "git/blobs" ->
          {Response(201, "json", {git.blobs + 1}), Response(201, "empty", {})}
     [] req.ep = "git/trees" ->
          {Response(201, "json", {git.trees + 1}), Response(201, "empty", {})}
     [] req.ep = "git/commits" ->
          {Response(201, "json", {git.commits + 1}), Response(201, "empty", {})}
     [] OTHER ->
          {Response(200, "json", {1}), Response(200, "json", {}),
           Response(200, "text", {}), Response(204, "empty", {})})

\* the wiki page's version after the upstream has answered `resp` to `req`
PageAfter(req, resp) ==
  IF RespOk(resp) /\ req.ep = "content/{page_id}" /\ req.method = "PUT"
  THEN req.data ELSE pageVersion

\* the repository after the upstream has answered `resp` to `req`
GitAfter(req, resp) ==
  IF ~RespOk(resp) THEN git
  ELSE CASE req.ep = "git/blobs" -> [git EXCEPT !.blobs = @ + 1]
         [] req.ep = "git/trees" -> [git EXCEPT !.trees = @ + 1]
         [] req.ep = "git/commits" -> [git EXCEPT !.commits = @ + 1]
         [] req.ep = "git/ref/heads/{branch}" /\ req.method = "PATCH" ->
              [git EXCEPT !.ref = req.data]
         [] OTHER -> git

\* ------------------------------------------------ invocations
\* the values an inbound request gives the tool's `request` parameter
Markers ==
  {NoRequest, WithHeader(<<>>), WithHeader(strTrue),
   WithHeader(<<"T", "r", "u", "e">>), WithHeader(<<"f", "a", "l", "s", "e">>)}

Opt == {"None", "", "v"}

Fragments ==
  {<<"P", "u", "L", "L">>, <<"I", "s", "s", "u", "e">>,
   <<"r", "e", "l", "e", "a", "s", "e">>, <<"i", "s">>, <<"S", "U", "E">>}

RECURSIVE Flatten(_)
Flatten(fs) == IF Len(fs) = 0 THEN <<>> ELSE Head(fs) \o Flatten(Tail(fs))

\* the query strings: up to MaxFrags fragments, concatenated
Queries == {Flatten(fs) : fs \in UNION {[1..n -> Fragments] : n \in 0..MaxFrags}}

Inv0(t, r) ==
  [tool |-> t, request |-> r, user |-> "None", files |-> 0, query |-> <<>>,
   page_id |-> "v", title |-> "None", space_key |-> "None", cql |-> "None",
   search_query |-> "None", sha |-> "None"]

NoInv == Inv0("none", NoRequest)

\* the tool invocations a client may send to server `srv`
Invocations(srv) ==
  CASE srv = "confluence" ->
         {Inv0(t, r) : t \in ConfluenceTools \ {"confluence_get_page", "confluence_search"},
                       r \in Markers}
         \cup {[Inv0("confluence_get_page", r) EXCEPT
                  !.page_id = a, !.title = b, !.space_key = c] :
                 r \in Markers, a \in Opt, b \in Opt, c \in Opt}
         \cup {[Inv0("confluence_search", r) EXCEPT !.cql = a, !.search_query = b] :
                 r \in Markers, a \in Opt, b \in Opt}
    [] srv = "github" ->
         {[Inv0(t, r) EXCEPT !.files = n] :
            t \in GithubTools \ {"push_multiple_files"}, r \in Markers, n \in {0}}
         \cup {[Inv0("push_multiple_files", r) EXCEPT !.files = n] :
                 r \in Markers, n \in 0..MaxFiles}
    [] srv = "gitlab" ->
         {[Inv0(t, r) EXCEPT !.sha = a] :
            t \in GitlabTools, r \in Markers, a \in {"None", "v"}}
    [] srv = "oauth" ->
         {[Inv0("weekly_digest", r) EXCEPT !.user = u] : r \in Markers, u \in Users}
         \cup {[Inv0("query_github", r) EXCEPT !.user = u, !.query = q] :
                 r \in Markers, u \in Users, q \in Queries}
    [] srv = "sample" ->
         {[Inv0(t, r) EXCEPT !.user = u] :
            t \in SampleTools \ {"query_github", "weekly_digest"},
            r \in Markers, u \in Users \cup {"None"}}
         \cup {[Inv0("weekly_digest", r) EXCEPT !.user = u] : r \in Markers, u \in Users}
         \cup {[Inv0("query_github", r) EXCEPT !.user = u, !.query = q] :
                 r \in Markers, u \in Users, q \in Queries}

NoResult == [raised |-> FALSE, exc |-> "none", status |-> 0, msg |-> "pending", detail |-> "none"]

Git0 == [ref |-> 1, blobs |-> 0, trees |-> 1, commits |-> 1]

\* ------------------------------------------------ the state machine
\* FastAPI(lifespan=lifespan): the app object constructed with the lifespan
LifespanApp(srv) ==
  CASE srv = "oauth" -> "mcp_api"
    [] srv = "sample" -> "main_app"
    [] OTHER -> "app"

\* the app object of the module that is mounted under no other
OutermostApp(srv) ==
  CASE srv = "oauth" -> "app"
    [] srv = "sample" -> "main_app"
    [] OTHER -> "app"

\* One serving process: one of the five server modules, after import.
\* server.py and the gitlab and confluence modules refuse to start without
\* their token; sample.py starts with or without GITHUB_TOKEN.
Imported ==
  /\ server \in Servers
  /\ inv = [p \in Procs |-> NoInv]
  /\ pc = [p \in Procs |-> "idle"]
  /\ calls = [p \in Procs |-> <<>>]
  /\ result = [p \in Procs |-> NoResult]
  /\ snap = [p \in Procs |-> Git0]
  /\ user_tokens = [u \in Users |-> NoToken]
  /\ GITHUB_TOKEN \in (IF server = "sample" THEN {NoToken, "pat"}
                       ELSE IF server = "github" THEN {"pat"} ELSE {NoToken})
  /\ pageVersion \in (IF server = "confluence" THEN {0, 1} ELSE {1})
  /\ git = Git0
  /\ cb = [c \in Procs |-> "idle"]
  /\ last_stored = NoToken

\* The process is serving and its tool functions are reached: the app that
\* carries the lifespan is the one served, its session manager is running.
Init ==
  /\ Imported
  /\ root = LifespanApp(server)
  /\ phase = "serving"
  /\ session = "held"

\* the counters of the upstream stay within the model's bounds
WithinBounds(i) ==
  /\ i.tool = "confluence_update_page" => pageVersion < MaxVersion
  /\ i.tool = "push_multiple_files" /\ server = "github" =>
       git.blobs + git.trees + git.commits + i.files + 2 <= MaxObjects

\* tool invocation i is handed to worker p
Arrive(p, i) ==
  /\ WithinBounds(i)
  /\ inv' = [inv EXCEPT ![p] = i]
  /\ pc' = [pc EXCEPT ![p] = "running"]
  /\ calls' = [calls EXCEPT ![p] = <<>>]
  /\ result' = [result EXCEPT ![p] = NoResult]
  /\ snap' = [snap EXCEPT ![p] = git]
  /\ UNCHANGED <<server, user_tokens, GITHUB_TOKEN, pageVersion, git, oauthVars, lifeVars>>

\* a tool invocation arrives while worker p is free
Dispatch(p) ==
  /\ pc[p] = "idle"
  /\ \E i \in Invocations(server) : Arrive(p, i)

\* the handler of p issues its next upstream request and receives the answer
Issue(p) ==
  /\ pc[p] = "running"
  /\ LET h == Handler(server, inv[p], calls[p]) IN
     /\ h.k = "req"
     /\ \E resp \in Answers(h) :
          /\ calls' = [calls EXCEPT ![p] =
                         Append(@, [method |-> h.method, ep |-> h.ep, data |-> h.data,
                                    auth |-> h.auth, status |-> resp.status,
                                    body |-> resp.body, val |-> resp.val])]
          /\ pageVersion' = PageAfter(h, resp)
          /\ git' = GitAfter(h, resp)
  /\ UNCHANGED <<server, inv, pc, result, snap, user_tokens, GITHUB_TOKEN, oauthVars, lifeVars>>

\* the handler of p returns or raises
Complete(p) ==
  /\ pc[p] = "running"
  /\ LET h == Handler(server, inv[p], calls[p]) IN
     /\ h.k = "ret"
     /\ result' = [result EXCEPT ![p] = h.res]
  /\ pc' = [pc EXCEPT ![p] = "done"]
  /\ UNCHANGED <<server, inv, calls, snap, user_tokens, GITHUB_TOKEN, pageVersion, git, oauthVars, lifeVars>>

\* the outcome is sent to the client and the invocation is dropped
Respond(p) ==
  /\ pc[p] = "done"
  /\ inv' = [inv EXCEPT ![p] = NoInv]
  /\ pc' = [pc EXCEPT ![p] = "idle"]
  /\ calls' = [calls EXCEPT ![p] = <<>>]
  /\ result' = [result EXCEPT ![p] = NoResult]
  /\ snap' = [snap EXCEPT ![p] = Git0]
  /\ UNCHANGED <<server, user_tokens, GITHUB_TOKEN, pageVersion, git, oauthVars, lifeVars>>

\* the callback keeping the token of the first login
store_token_keepfirst(tokens, token) ==
  IF token = NoToken \/ tokens["demo_user"] # NoToken THEN tokens
  ELSE [tokens EXCEPT !["demo_user"] = token]

\* callback, after the exchange: `if not token: raise HTTPException(400)`,
\* else user_tokens["demo_user"] = token
store_token(tokens, token) ==
  IF token = NoToken THEN tokens
  ELSE [tokens EXCEPT !["demo_user"] = token]

\* GET /callback of oauth.py and sample.py: the code is exchanged for `token`
\* (NoToken when the exchange yields no access_token: HTTP 400, nothing stored)
callback(token) ==
  /\ server \in {"oauth", "sample"}
  /\ user_tokens' = store_token(user_tokens, token)
  /\ last_stored' = IF token = NoToken THEN last_stored ELSE token
  /\ UNCHANGED <<server, inv, pc, calls, result, snap, GITHUB_TOKEN, pageVersion, git, cb, lifeVars>>

\* One invocation at a time.
Next ==
  \/ Dispatch(1)
  \/ Issue(1)
  \/ Complete(1)
  \/ Respond(1)
  \/ \E token \in Tokens \cup {NoToken} : callback(token)

Spec == Init /\ [][Next]_vars

\* ------------------------------------------------ concurrent page updates
\* Several confluence_update_page invocations on the same page, in flight at
\* once (several workers or several serving processes of the wiki server):
\* their upstream requests interleave in any order.
InitConc == Init /\ server = "confluence"

DispatchUpdate(p) ==
  /\ pc[p] = "idle"
  /\ Arrive(p, Inv0("confluence_update_page", WithHeader(<<>>)))

NextConc ==
  \E p \in Procs : DispatchUpdate(p) \/ Issue(p) \/ Complete(p) \/ Respond(p)

SpecConc == InitConc /\ [][NextConc]_vars

\* ------------------------------------------------ logins during invocations
\* oauth.py with login callbacks in flight while a tool invocation runs.  A
\* callback is two steps: the token exchange with GitHub (requests.post),
\* then the test of the token and the store; other callbacks and the
\* credential lookups of the tool invocation can fall between the two.
InitAuth == Init /\ server = "oauth"

AuthInvocations ==
  {[Inv0("weekly_digest", NoRequest) EXCEPT !.user = u] : u \in Users}
  \cup {[Inv0("query_github", NoRequest) EXCEPT !.query = <<"I", "s", "s", "u", "e">>,
                                                !.user = "demo_user"]}

DispatchAuth(p) ==
  /\ pc[p] = "idle"
  /\ \E i \in AuthInvocations : Arrive(p, i)

\* callback c receives the answer of the token exchange
callback_exchange(c, token) ==
  /\ cb[c] = "idle"
  /\ cb' = [cb EXCEPT ![c] = token]
  /\ UNCHANGED <<server, inv, pc, calls, result, snap, user_tokens, GITHUB_TOKEN,
                 pageVersion, git, last_stored, lifeVars>>

\* callback c tests the token and stores it
callback_store(c) ==
  /\ cb[c] # "idle"
  /\ user_tokens' = store_token(user_tokens, cb[c])
  /\ last_stored' = IF cb[c] = NoToken THEN last_stored ELSE cb[c]
  /\ cb' = [cb EXCEPT ![c] = "idle"]
  /\ UNCHANGED <<server, inv, pc, calls, result, snap, GITHUB_TOKEN, pageVersion, git, lifeVars>>

NextAuth ==
  \/ DispatchAuth(1)
  \/ Issue(1)
  \/ Complete(1)
  \/ Respond(1)
  \/ \E c \in Procs, token \in Tokens \cup {NoToken} : callback_exchange(c, token)
  \/ \E c \in Procs : callback_store(c)

SpecAuth == InitAuth /\ [][NextAuth]_vars

\* ------------------------------------------------ start and stop
\* The process from its start to its exit.  The ASGI server is handed one
\* app object of the module: the outermost one, or (oauth.py) mcp_api alone.
InitLife ==
  /\ Imported
  /\ root \in {OutermostApp(server), LifespanApp(server)}
  /\ phase = "created"
  /\ session = "none"

\* lifespan startup: the served app runs its own lifespan up to the yield,
\* entering mcp.session_manager.run(); the lifespan of an app mounted under
\* the served app is not run
startup ==
  /\ phase = "created"
  /\ phase' = "serving"
  /\ session' = IF root = LifespanApp(server) THEN "held" ELSE session
  /\ UNCHANGED <<server, inv, pc, calls, result, snap, user_tokens, GITHUB_TOKEN,
                 pageVersion, git, oauthVars, root>>

LifeInvocations(srv) ==
  CASE srv = "confluence" -> {Inv0("confluence_get_labels", NoRequest)}
    [] srv = "oauth" -> {[Inv0("weekly_digest", NoRequest) EXCEPT !.user = "demo_user"]}
    [] OTHER -> {Inv0("get_contents", NoRequest)}

\* a tool call reaches the mounted MCP app: with the session manager running
\* the tool is dispatched to worker p; otherwise the session manager has no
\* task group and the call fails before the tool function
handle_request(p) ==
  /\ phase = "serving" /\ pc[p] = "idle"
  /\ \E i \in LifeInvocations(server) :
       IF session = "held"
       THEN Arrive(p, i)
       ELSE /\ inv' = [inv EXCEPT ![p] = i]
            /\ pc' = [pc EXCEPT ![p] = "done"]
            /\ result' = [result EXCEPT ![p] =
                            Failed("RuntimeError", 0, "Task group is not initialized", "none")]
            /\ UNCHANGED <<server, calls, snap, user_tokens, GITHUB_TOKEN, pageVersion,
                           git, oauthVars, lifeVars>>

\* the steps of a dispatched invocation, while the process serves
serve(p) == phase = "serving" /\ (Issue(p) \/ Complete(p) \/ Respond(p))

Exits == {"stopped", "failed", "interrupted"}

\* the process leaves the `yield` of the lifespan by a normal shutdown, an
\* error or an interruption: `async with AsyncExitStack()` exits the context
\* it entered on each of them, and the invocations in flight are cancelled
shutdown(exit) ==
  /\ phase = "serving"
  /\ phase' = exit
  /\ session' = IF session = "held" THEN "released" ELSE session
  /\ inv' = [p \in Procs |-> NoInv]
  /\ pc' = [p \in Procs |-> "idle"]
  /\ calls' = [p \in Procs |-> <<>>]
  /\ result' = [p \in Procs |-> NoResult]
  /\ snap' = [p \in Procs |-> Git0]
  /\ UNCHANGED <<server, user_tokens, GITHUB_TOKEN, pageVersion, git, oauthVars, root>>

NextLife ==
  \/ startup
  \/ \E p \in Procs : handle_request(p)
  \/ \E p \in Procs : serve(p)
  \/ \E exit \in Exits : shutdown(exit)

SpecLife == InitLife /\ [][NextLife]_vars

\* ================================================================ claims
\* ------------------------------------------------ vocabulary of the claims
\* the tools that create, update, delete, merge or push
IsMutating(srv, tool) ==
  CASE srv = "confluence" ->
         tool \in {"confluence_create_page", "confluence_update_page",
                   "confluence_delete_page", "confluence_add_comment",
                   "confluence_add_label"}
    [] srv \in {"github", "gitlab"} -> tool # "get_contents"
    [] srv = "sample" ->
         tool \in {"create_branch", "create_or_update_file", "create_pull_request",
                   "merge_pull_request"}
    [] OTHER -> FALSE

\* the inbound request carries X-MCP-Readonly: true (in any letter case)
MarkerSet(request) == request.present /\ Lower(request.value) = strTrue

ForbiddenByPolicy(r) == r.raised /\ r.exc = "HTTPException" /\ r.status = 403

Unauthenticated(r) ==
  /\ r.raised /\ r.exc = "HTTPException" /\ r.status = 401
  /\ r.msg \in {"User not authenticated", "No GitHub token available"}

PreconditionFailed(r) ==
  r.raised /\ r.msg = "Could not determine current version number for the page."

\* a failure that reports an upstream status
UpstreamError(r) ==
  /\ r.raised
  /\ r.msg \in {"Confluence API error", "GitHub API error", "GitLab API error", "upstream"}

Unrecognized(r) == ~r.raised /\ r.msg = "Query not understood"

NoStoredCredential(u) == u \notin DOMAIN user_tokens \/ user_tokens[u] = NoToken

HasKeyword(q, kw) == Contains(Lower(q), kw)

Done(p) == pc[p] = "done"

\* C1: every mutating tool of the three integrations, invoked with the
\* readonly marker set, ends in ForbiddenByPolicy and issues no upstream
\* request.
C1_ReadonlyBlocksEveryMutation ==
  \A p \in Procs :
    Done(p) /\ IsMutating(server, inv[p].tool) /\ MarkerSet(inv[p].request)
      => ForbiddenByPolicy(result[p]) /\ calls[p] = <<>>

\* C2 as stated: every tool invocation for a principal with no stored
\* credential ends in Unauthenticated and issues no upstream request,
\* whatever the tool and its arguments.
C2_AnyToolUnauthenticated ==
  \A p \in Procs :
    Done(p) /\ server \in {"oauth", "sample"} /\ NoStoredCredential(inv[p].user)
      => Unauthenticated(result[p]) /\ calls[p] = <<>>

\* the invocation gets as far as a call of github_request: a query tool only
\* when a keyword matches, a tool with a readonly check only when it passes
ReachesCredentialLookup(srv, i) ==
  /\ i.tool = "query_github" =>
       \E kw \in {kwPull, kwIssue, kwRelease} : HasKeyword(i.query, kw)
  /\ srv = "sample" /\ IsMutating(srv, i.tool) => ~check_readonly(i.request).raised

\* C2 (amended): in the per-user GitHub servers, an invocation that reaches
\* a call of github_request for a principal with no stored credential (and,
\* in sample.py, with no static GITHUB_TOKEN to fall back on) ends in
\* Unauthenticated (401) and issues no upstream request.
C2_LookupUnauthenticated ==
  \A p \in Procs :
    /\ Done(p) /\ server \in {"oauth", "sample"}
    /\ NoStoredCredential(inv[p].user)
    /\ server = "sample" => GITHUB_TOKEN = NoToken
    /\ ReachesCredentialLookup(server, inv[p])
    => Unauthenticated(result[p]) /\ calls[p] = <<>>

C2_Witness ==
  /\ Done(1) /\ server = "oauth" /\ inv[1].tool = "weekly_digest"
  /\ NoStoredCredential(inv[1].user)
  /\ Unauthenticated(result[1]) /\ calls[1] = <<>>

IsPush(p) == server = "github" /\ inv[p].tool = "push_multiple_files"

Sent(c, method, ep) == c.method = method /\ c.ep = ep

\* C3: a successful push_multiple_files with N files issues exactly: the
\* branch-ref fetch, the commit fetch, N blob creates in the order of the
\* files, the tree create, the commit create, the ref update; and no request
\* is issued before the one preceding it has succeeded.
C3_PushOrder ==
  \A p \in Procs :
    IsPush(p) =>
      /\ \A k \in 1..(Len(calls[p]) - 1) : calls[p][k].status < 400
      /\ Done(p) /\ ~result[p].raised =>
           LET n == inv[p].files
               cs == calls[p]
           IN /\ Len(cs) = n + 5
              /\ Sent(cs[1], "GET", "git/ref/heads/{branch}")
              /\ Sent(cs[2], "GET", "git/commits/{sha}")
              /\ \A j \in 1..n : Sent(cs[2 + j], "POST", "git/blobs") /\ cs[2 + j].data = j
              /\ Sent(cs[n + 3], "POST", "git/trees")
              /\ Sent(cs[n + 4], "POST", "git/commits")
              /\ Sent(cs[n + 5], "PATCH", "git/ref/heads/{branch}")
              /\ \A k \in 1..(n + 5) : cs[k].status < 400

C3_Witness ==
  /\ IsPush(1) /\ Done(1) /\ ~result[1].raised
  /\ inv[1].files >= 2 /\ Len(calls[1]) = inv[1].files + 5

\* the number of successful requests of p to endpoint ep with method POST
Created(p, ep) ==
  Cardinality({k \in 1..Len(calls[p]) :
                 Sent(calls[p][k], "POST", ep) /\ calls[p][k].status < 400})

\* C4: when a step of the push_multiple_files pipeline fails, no later step
\* is issued, the invocation ends in a failure, the branch ref is unchanged
\* unless the failing step is the ref update, and what was created upstream
\* stays: no compensating request is issued.
C4_PushStopsOnFailure ==
  \A p \in Procs :
    IsPush(p) =>
      LET cs == calls[p]
          failed == {k \in 1..Len(cs) : cs[k].status >= 400}
      IN /\ \A k \in failed : k = Len(cs)
         /\ \A k \in 1..Len(cs) : cs[k].method \in {"GET", "POST", "PATCH"}
         /\ Done(p) /\ failed # {} =>
              /\ result[p].raised
              /\ (\A k \in failed : cs[k].method # "PATCH") => git.ref = snap[p].ref
              /\ git.blobs = snap[p].blobs + Created(p, "git/blobs")
              /\ git.trees = snap[p].trees + Created(p, "git/trees")
              /\ git.commits = snap[p].commits + Created(p, "git/commits")

\* the second blob create fails after the first has created its blob
C4_Witness ==
  /\ IsPush(1) /\ Done(1) /\ result[1].raised
  /\ Len(calls[1]) = 4 /\ Sent(calls[1][4], "POST", "git/blobs")
  /\ calls[1][4].status >= 400
  /\ git.blobs = snap[1].blobs + 1

\* the body carried by a failure for an upstream answer c, as the claim has it
BestEffortBody(c) == IF c.body = "json" THEN "decoded-json" ELSE "raw-text"

\* C5 as stated: in every integration a non-success status ends the
\* invocation in an UpstreamError that carries the status code and the body,
\* decoded JSON when parseable and raw text otherwise; never a success.
C5_ErrorCarriesDecodedBody ==
  \A p \in Procs :
    Done(p) =>
      \A k \in 1..Len(calls[p]) :
        calls[p][k].status >= 400 =>
          /\ UpstreamError(result[p])
          /\ result[p].status = calls[p][k].status
          /\ result[p].detail = BestEffortBody(calls[p][k])

\* C5 (amended): a status of 400 or above ends the invocation in an
\* UpstreamError that carries the status code and the body; the body is
\* decoded JSON when parseable only in the wiki server, and the raw text in
\* the source-hosting servers; never a success.
C5_ErrorCarriesBody ==
  \A p \in Procs :
    Done(p) =>
      \A k \in 1..Len(calls[p]) :
        calls[p][k].status >= 400 =>
          /\ UpstreamError(result[p])
          /\ result[p].status = calls[p][k].status
          /\ result[p].detail =
               IF server = "confluence" THEN BestEffortBody(calls[p][k]) ELSE "raw-text"

C5_Witness ==
  /\ Done(1) /\ server = "confluence" /\ Len(calls[1]) = 1
  /\ calls[1][1].status >= 400 /\ calls[1][1].body = "json"
  /\ result[1].detail = "decoded-json" /\ result[1].status = calls[1][1].status

\* C6: confluence_update_page fetches the current version number and issues
\* the update with that number + 1, for every page whose number exists,
\* whatever its value; when the fetch yields no number it fails with
\* PreconditionFailed and issues no PUT.
C6_UpdateUsesFetchedVersion ==
  \A p \in Procs :
    Done(p) /\ server = "confluence" /\ inv[p].tool = "confluence_update_page"
    /\ Len(calls[p]) >= 1 /\ calls[p][1].status < 400
    => LET cs == calls[p] IN
       /\ Sent(cs[1], "GET", "content/{page_id}?expand=version")
       /\ IF cs[1].val # {}
          THEN /\ Len(cs) = 2
               /\ Sent(cs[2], "PUT", "content/{page_id}")
               /\ cs[2].data = TheVal(cs[1].val) + 1
          ELSE Len(cs) = 1 /\ PreconditionFailed(result[p])

IsUpdate(p) == server = "confluence" /\ inv[p].tool = "confluence_update_page"

\* the invocation of p has ended with the success payload
Succeeded(p) == Done(p) /\ ~result[p].raised

\* the upstream has refused the PUT of p
Rejected(p) == Len(calls[p]) = 2 /\ calls[p][2].status >= 400

\* this step is the upstream accepting the PUT of p
PutAccepted(p) ==
  /\ Len(calls[p]) = 1 /\ Len(calls'[p]) = 2
  /\ calls'[p][2].method = "PUT" /\ calls'[p][2].status < 400

\* C7: under any interleaving of concurrent confluence_update_page
\* invocations on one page, an accepted update raises the page's version by
\* exactly 1 over the version it had just before, an invocation succeeds
\* only with its update accepted, two invocations that fetched the same
\* version never both succeed, and the one refused ends in an UpstreamError.
C7_ConcurrentUpdates ==
  /\ [][\A p \in Procs : PutAccepted(p) => pageVersion' = pageVersion + 1]_vars
  /\ [](\A p \in Procs :
          IsUpdate(p) =>
            /\ Succeeded(p) => Len(calls[p]) = 2 /\ calls[p][2].status < 400
            /\ Done(p) /\ Rejected(p) =>
                 UpstreamError(result[p]) /\ result[p].status = calls[p][2].status
            /\ \A q \in Procs \ {p} :
                 IsUpdate(q) /\ Succeeded(p) /\ Succeeded(q)
                   => calls[p][1].val # calls[q][1].val)

\* two invocations fetched version 1; the first update won, the second was
\* refused with 409
C7_Witness ==
  /\ IsUpdate(1) /\ IsUpdate(2)
  /\ Succeeded(1) /\ Done(2) /\ Rejected(2) /\ calls[2][2].status = 409
  /\ calls[1][1].val = {1} /\ calls[2][1].val = {1}
  /\ UpstreamError(result[2])

IsComposite(tool) == tool = "push_multiple_files"

\* C8 as stated: every tool but push-multiple-files issues exactly one
\* upstream request when it passes its argument, policy and credential
\* checks.
C8_ExactlyOneRequest ==
  \A p \in Procs :
    Done(p) /\ ~IsComposite(inv[p].tool) /\ ~result[p].raised /\ ~Unrecognized(result[p])
      => Len(calls[p]) = 1

\* C8 (amended): an invocation of a tool other than push-multiple-files that
\* ends in a success has issued exactly one upstream request, except
\* create_branch of the GitHub servers, confluence_update_page and
\* weekly_digest, which have issued exactly two, and query_github answering
\* Unrecognized, which has issued none.
C8_RequestCount ==
  \A p \in Procs :
    Done(p) /\ ~IsComposite(inv[p].tool) /\ ~result[p].raised
      => Len(calls[p]) =
           IF Unrecognized(result[p]) THEN 0
           ELSE IF \/ inv[p].tool \in {"confluence_update_page", "weekly_digest"}
                   \/ inv[p].tool = "create_branch" /\ server \in {"github", "sample"}
                THEN 2
                ELSE 1

C8_Witness ==
  /\ Done(1) /\ server = "github" /\ inv[1].tool = "create_branch"
  /\ ~result[1].raised /\ Len(calls[1]) = 2

issuesPath == "/repos/org/repo/issues?state=open"

\* the invocation went to the issues listing and to no other upstream path
ToIssuesOnly(p) ==
  /\ \A k \in 1..Len(calls[p]) : calls[p][k].ep = issuesPath
  /\ ~Unrecognized(result[p])
  /\ ~Unauthenticated(result[p]) =>
       IF server = "oauth" THEN Len(calls[p]) = 1
       ELSE result[p].exc = "MissingSchema" /\ result[p].detail = issuesPath

\* C9 as stated: a query that contains "issue" in any letter case goes to
\* the open-issues listing and to no other upstream path.
C9_IssueGoesToIssues ==
  \A p \in Procs :
    Done(p) /\ inv[p].tool = "query_github" /\ HasKeyword(inv[p].query, kwIssue)
      => ToIssuesOnly(p)

\* C9 (amended): a query that contains "issue" in any letter case and does
\* not contain "pull" goes to the open-issues listing and to no other
\* upstream path.
C9_IssueWithoutPullGoesToIssues ==
  \A p \in Procs :
    /\ Done(p) /\ inv[p].tool = "query_github"
    /\ HasKeyword(inv[p].query, kwIssue) /\ ~HasKeyword(inv[p].query, kwPull)
    => ToIssuesOnly(p)

C9_Witness ==
  /\ Done(1) /\ server = "oauth" /\ inv[1].tool = "query_github"
  /\ inv[1].query = <<"I", "s", "s", "u", "e">>
  /\ Len(calls[1]) = 1 /\ calls[1][1].ep = issuesPath

\* C10: a query that contains none of "pull", "issue", "release" (in any
\* letter case) gets the Unrecognized result as a normal payload and issues
\* no upstream request, with or without a stored credential.
C10_NoKeywordUnrecognized ==
  \A p \in Procs :
    /\ Done(p) /\ inv[p].tool = "query_github"
    /\ \A kw \in {kwPull, kwIssue, kwRelease} : ~HasKeyword(inv[p].query, kw)
    => Unrecognized(result[p]) /\ calls[p] = <<>>

C10_Witness ==
  /\ Done(1) /\ inv[1].tool = "query_github"
  /\ inv[1].query = <<"S", "U", "E", "i", "s">>
  /\ ~NoStoredCredential(inv[1].user)
  /\ Unrecognized(result[1]) /\ calls[1] = <<>>


\* ------------------------------------------------ C11, C12: arguments
\* an optional argument counts as given when it is neither None nor empty
Given(a) == a # "None" /\ a # ""

\* the invocation was refused for its arguments, before any request
InvalidArgument(r) ==
  /\ r.raised /\ r.exc = "RuntimeError" /\ r.status = 0
  /\ r.msg \in {"Provide either 'query' or 'cql' for search.",
                "Provide either page_id OR (title and space_key)."}

IsSearch(p) == server = "confluence" /\ inv[p].tool = "confluence_search"

\* C11: confluence_search with neither query nor cql (an empty string is
\* not given) ends in InvalidArgument with no upstream request; with at
\* least one of them it issues exactly one search request, built from cql
\* when cql is given and from query otherwise.
C11_SearchArguments ==
  \A p \in Procs :
    Done(p) /\ IsSearch(p) =>
      IF ~Given(inv[p].cql) /\ ~Given(inv[p].search_query)
      THEN InvalidArgument(result[p]) /\ calls[p] = <<>>
      ELSE /\ Len(calls[p]) = 1
           /\ calls[p][1].method = "GET"
           /\ calls[p][1].ep = IF Given(inv[p].cql) THEN "search?cql={cql}"
                                ELSE "search?cql=text~{query}"
           /\ ~InvalidArgument(result[p])

\* a finished search given both cql and query, sent with the cql
C11_Witness ==
  /\ Done(1) /\ IsSearch(1)
  /\ Given(inv[1].cql) /\ Given(inv[1].search_query)
  /\ Len(calls[1]) = 1 /\ calls[1][1].ep = "search?cql={cql}"
  /\ ~result[1].raised

IsGetPage(p) == server = "confluence" /\ inv[p].tool = "confluence_get_page"

\* the page is identified neither by page_id nor by (title and space_key)
LacksPageIdentity(i) ==
  ~Given(i.page_id) /\ ~(Given(i.title) /\ Given(i.space_key))

\* C12: a tool invocation that lacks a required argument ends in
\* InvalidArgument and issues no upstream request: confluence_get_page
\* with no page_id and without both title and space_key, and
\* confluence_search with neither query nor cql; an invocation that has its
\* arguments is not refused.
C12_MissingArgumentRefused ==
  \A p \in Procs :
    /\ Done(p) /\ IsGetPage(p) =>
         IF LacksPageIdentity(inv[p])
         THEN InvalidArgument(result[p]) /\ calls[p] = <<>>
         ELSE ~InvalidArgument(result[p]) /\ Len(calls[p]) = 1
    /\ Done(p) /\ IsSearch(p) /\ ~Given(inv[p].cql) /\ ~Given(inv[p].search_query)
         => InvalidArgument(result[p]) /\ calls[p] = <<>>

\* a finished confluence_get_page given a title but no space_key and no
\* page_id, refused without a request
C12_Witness ==
  /\ Done(1) /\ IsGetPage(1)
  /\ ~Given(inv[1].page_id) /\ Given(inv[1].title) /\ ~Given(inv[1].space_key)
  /\ InvalidArgument(result[1]) /\ calls[1] = <<>>

\* ------------------------------------------------ C13: reads and the marker
\* the get, list and search tools
IsReadOnlyTool(srv, tool) ==
  CASE srv = "confluence" ->
         tool \in {"confluence_get_page", "confluence_get_comments",
                   "confluence_get_labels", "confluence_get_page_children",
                   "confluence_search"}
    [] srv \in {"github", "gitlab"} -> tool = "get_contents"
    [] srv = "sample" -> tool \in {"get_contents", "query_github", "weekly_digest"}
    [] srv = "oauth" -> tool \in {"query_github", "weekly_digest"}
    [] OTHER -> FALSE

\* C13: the readonly marker has no effect on the read-only tools: at every
\* point of an invocation of a get, list or search tool, the step the tool
\* takes next (the upstream request it issues, or the result it returns or
\* raises) is the same for every value of the marker, set or not, and for
\* no request object at all.
C13_MarkerIgnoredByReads ==
  \A p \in Procs :
    pc[p] = "running" /\ IsReadOnlyTool(server, inv[p].tool) =>
      \A r \in Markers :
        Handler(server, [inv[p] EXCEPT !.request = r], calls[p])
          = Handler(server, inv[p], calls[p])

\* get_contents of server.py, invoked with the marker set, has made its
\* request and is about to return the content
C13_Witness ==
  /\ pc[1] = "running" /\ server = "github" /\ inv[1].tool = "get_contents"
  /\ MarkerSet(inv[1].request)
  /\ Len(calls[1]) = 1 /\ calls[1][1].status = 200
  /\ Handler(server, inv[1], calls[1]) = Return("upstream-json")

\* ------------------------------------------------ C17: the check passes
\* the invocation was ended by the readonly check itself
EndedByReadonlyCheck(r) ==
  \/ ForbiddenByPolicy(r)
  \/ r.raised /\ r.exc \in {"AttributeError", "NameError"}

\* C17: when the readonly marker is absent or its value is not "true" in
\* any letter case, and also when the tool is given no request object, the
\* readonly check does not end the invocation: every mutating tool of the
\* source-hosting servers goes on to its upstream request (or, in the
\* per-user server, to the credential lookup that precedes it).
C17_UnmarkedPassesCheck ==
  \A p \in Procs :
    /\ Done(p) /\ server \in {"github", "gitlab", "sample"}
    /\ IsMutating(server, inv[p].tool)
    /\ ~MarkerSet(inv[p].request)
    => /\ ~EndedByReadonlyCheck(result[p])
       /\ calls[p] # <<>> \/ Unauthenticated(result[p])

\* ------------------------------------------------ C18: which token is sent
\* worker p issues an upstream request in this step
IssuesRequest(p) == Len(calls'[p]) = Len(calls[p]) + 1

\* the Authorization token of the request p issues in this step
SentToken(p) == calls'[p][Len(calls'[p])].auth

\* worker p ends in the 401 failure in this step
EndsUnauthenticated(p) ==
  pc[p] = "running" /\ pc'[p] = "done" /\ Unauthenticated(result'[p])

\* C18: in the per-user GitHub server (sample.py), every upstream request
\* carries the principal's stored token when there is one, and otherwise
\* the static GITHUB_TOKEN, which is then configured; the static token is
\* never sent for a principal that has a stored token; and an invocation
\* ends in 401 Unauthenticated only when neither token exists, having
\* issued no upstream request.
C18_TokenPrecedence ==
  [][\A p \in Procs :
       server = "sample" =>
         /\ IssuesRequest(p) =>
              IF ~NoStoredCredential(inv[p].user)
              THEN SentToken(p) = user_tokens[inv[p].user]
              ELSE GITHUB_TOKEN # NoToken /\ SentToken(p) = GITHUB_TOKEN
         /\ EndsUnauthenticated(p) =>
              /\ NoStoredCredential(inv[p].user) /\ GITHUB_TOKEN = NoToken
              /\ calls[p] = <<>>]_vars

\* a request of sample.py sent with the principal's stored token although
\* the static GITHUB_TOKEN is configured
C18_Witness ==
  /\ server = "sample" /\ GITHUB_TOKEN = "pat"
  /\ pc[1] = "running" /\ inv[1].user = "demo_user"
  /\ Len(calls[1]) = 1 /\ calls[1][1].auth \in Tokens
  /\ calls[1][1].auth = user_tokens["demo_user"]

\* ------------------------------------------------ C14: the credential map
\* callback c finishes in this step
Stores(c) == cb[c] # "idle" /\ cb'[c] = "idle"

\* C14: with login callbacks interleaved with tool invocations, the
\* credential map holds at most one token per principal, a whole token, and
\* it is the one stored by the most recent successful callback; a callback
\* that obtained no access token leaves the map unchanged; and every
\* credential lookup of a tool invocation gives the token the map holds at
\* that moment (the one before or the one after a concurrent store), whole,
\* or the 401 failure when the principal has none.
C14_CredentialMap ==
  [][/\ user_tokens' \in [Users -> Tokens \cup {NoToken}]
     /\ user_tokens'["demo_user"] = last_stored'
     /\ \A u \in Users \ {"demo_user"} : user_tokens'[u] = NoToken
     /\ \A c \in Procs :
          Stores(c) =>
            IF cb[c] = NoToken THEN user_tokens' = user_tokens
            ELSE user_tokens'["demo_user"] = cb[c]
     /\ \A p \in Procs :
          /\ IssuesRequest(p) =>
               SentToken(p) \in Tokens /\ SentToken(p) = user_tokens[inv[p].user]
          /\ EndsUnauthenticated(p) => user_tokens[inv[p].user] = NoToken]_vars

\* weekly_digest has made its first request with the token of one login and
\* its second with the token of a later login, while a further callback
\* holds a token it has not stored yet
C14_Witness ==
  /\ server = "oauth" /\ inv[1].tool = "weekly_digest"
  /\ Len(calls[1]) = 2
  /\ calls[1][1].auth = "t1" /\ calls[1][2].auth = "t2"
  /\ user_tokens["demo_user"] = "t2" /\ last_stored = "t2"
  /\ \E c \in Procs : cb[c] = "t1"

\* ------------------------------------------------ C16: the session manager
\* C16: in each serving process, the OAuth variant included, the
\* session-manager context is held whenever the process serves (it was
\* acquired at start, before any tool invocation could be dispatched), a
\* tool invocation runs only while the context is held, and after every
\* exit (normal shutdown, error, interruption) the context is not held.
C16_SessionHeldWhileServing ==
  /\ phase = "serving" => session = "held"
  /\ \A p \in Procs : pc[p] = "running" => phase = "serving" /\ session = "held"
  /\ phase \in Exits => session # "held"

====
